---- MODULE Spec2Model ----
(***************************************************************************)
(* Tourist safety system: the emergency alert dispatch engine and the      *)
(* alert history (routes/sos.js), registration, the account lockout state  *)
(* machine and the one-time code lifecycle (models/User.js,                *)
(* routes/auth.js, routes/phone-verification.js, middleware/auth.js).      *)
(*                                                                         *)
(* Every async handler is cut at its awaits: one action per segment that   *)
(* runs without yielding to the event loop.  A database write is the step  *)
(* at which the awaited operation lands in the store.                      *)
(***************************************************************************)
EXTENDS Integers, Sequences, FiniteSets, TLC

\* ------------------------------------------------------------------ bounds
MaxTrig == 1        \* trigger requests per behaviour
MaxLogin == 1       \* login requests that can be open at the same time
MaxTicks == 1       \* clock advances per behaviour
MaxOtp == 1         \* one-time-code requests that can be open at the same time
RandomSamples == 2  \* values of Math.random(): k / RandomSamples, 0 <= k < RandomSamples
MaxPhoneLen == 11   \* characters of an address handed to formatPhoneNumber
MaxLogs == 12       \* stored alerts when the history is read
MaxOther == 1       \* of them, alerts of another identity than the reader
MaxReg == 2         \* registration requests that can be open at the same time
MaxRace == 2        \* login requests for one identity that overlap

\* --------------------------------------------------------------- constants
BurstSize == 3      \* for (let i = 0; i < 3; i++)
MaxAttempts == 5    \* this.loginAttempts + 1 >= 5
LockDuration == 2 * 60 * 60 * 1000    \* lockUntil: Date.now() + 2 hours
OtpValidity == 10 * 60 * 1000         \* otpExpiry: Date.now() + 10 minutes
HistoryLimit == 10  \* .limit(10)

\* An optional value is a sequence of length at most one: <<>> is a field
\* that is not stored (undefined / null), <<v>> is the stored value v.  A text
\* is the sequence of its characters, so the empty text and an undefined
\* text are both <<>>; the code only ever tests such a value for truthiness.
Absent == <<>>
Some(v) == <<v>>
Val(o) == o[1]

NoToken == "notoken"          \* request without a usable bearer token
NoUser == "nouser"

Users == {"u1", "u2", "u3"}
Trigs == 1..MaxTrig
Logins == 1..MaxLogin
Racers == 1..MaxRace
Otps == 1..MaxOtp
Regs == 1..MaxReg

\* what a login request can carry: the handle of a stored identity (the
\* login path treats every identity alike and touches only the one it
\* addresses, so the requests address u1) or of nobody, and the identity's
\* secret or another one
Identifiers == {"u1", "nobody"}
Passwords == {"secret", "guess"}

Digit == {"0", "1", "2", "3", "4", "5", "6", "7", "8", "9"}

\* const policeNumber = '+919876543210'
policeNumber == <<"+", "9", "1", "9", "8", "7", "6", "5", "4", "3", "2", "1", "0">>

\* stored phone numbers of the identities: registration keeps a number that
\* starts with '+' and stores '+91' + number otherwise
PhoneU1 == <<"+", "9", "1", "9", "0", "0", "0", "0", "0", "0", "0", "0", "1">>
PhoneU2 == <<"+", "9", "0", "0", "0", "0", "0", "0", "0", "0", "2">>
PhoneU3 == <<"+", "9", "1", "9", "0", "0", "0", "0", "0", "0", "0", "0", "3">>
\* the emergency contact of u1, stored under the schema's field `phone`
ContactU1 == <<"9", "1", "1", "1", "1", "1", "1", "1", "1", "1">>
\* the emergency contact of u3: the schema takes any string for `phone`, and
\* this one holds no digit
ContactU3 == <<"n", "/", "a">>

\* req.body.location: not supplied, a position, or an object that carries
\* neither a latitude nor a longitude
Locations == {Absent, Some([latitude |-> 12, longitude |-> 77]), Some([accuracy |-> 5])}
\* req.body.timestamp: not supplied, or a client-chosen instant
Timestamps == {Absent, Some(7)}

VARIABLES now, ticks, users, sosLogs, trig, logins, streak, otps, issued,
          configured, fmt, hist, regs, accounts, testSms

sosVars == <<sosLogs, trig>>
loginVars == <<logins, streak>>
otpVars == <<otps, issued>>
regVars == <<regs, accounts>>
restVars == <<configured, fmt, hist, regVars, testSms>>
vars == <<now, ticks, users, sosLogs, trig, logins, streak, otps, issued,
          configured, fmt, hist, regs, accounts, testSms>>

\* ------------------------------------------------------------ data helpers

\* JavaScript property read: a field the object does not have is undefined
Field(obj, f) == IF f \in DOMAIN obj THEN obj[f] ELSE Absent

\* JavaScript truthiness of an optional value or a text
Truthy(v) == v # <<>>

\* Number.prototype.toString of a non-negative integer
RECURSIVE toString(_)
toString(n) ==
    LET d == <<"0", "1", "2", "3", "4", "5", "6", "7", "8", "9">>[(n % 10) + 1]
    IN  IF n < 10 THEN <<d>> ELSE toString(n \div 10) \o <<d>>

\* `${obj.f}` of a template literal: the decimal text of a number, and the
\* text "undefined" for a property the object does not have
Interpolate(obj, f) ==
    IF f \in DOMAIN obj THEN toString(obj[f])
    ELSE <<"u", "n", "d", "e", "f", "i", "n", "e", "d">>

RECURSIVE StripNonDigits(_)
\* phone.replace(/\D/g, '')
StripNonDigits(s) ==
    IF s = <<>> THEN <<>>
    ELSE IF Head(s) \in Digit THEN <<Head(s)>> \o StripNonDigits(Tail(s))
         ELSE StripNonDigits(Tail(s))

\* variant: the country code is put in front of ten digits or fewer
formatPhoneNumber_UpToTen(phone) ==
    IF ~Truthy(phone) THEN Absent
    ELSE LET cleaned == StripNonDigits(phone)
             withCc == IF Len(cleaned) <= 10 THEN <<"9", "1">> \o cleaned ELSE cleaned
         IN  IF withCc # <<>> /\ Head(withCc) = "+" THEN withCc ELSE <<"+">> \o withCc

\* variant: the country code is also put in front of more than ten digits
formatPhoneNumber_AtLeastTen(phone) ==
    IF ~Truthy(phone) THEN Absent
    ELSE LET cleaned == StripNonDigits(phone)
             withCc == IF Len(cleaned) >= 10 THEN <<"9", "1">> \o cleaned ELSE cleaned
         IN  IF withCc # <<>> /\ Head(withCc) = "+" THEN withCc ELSE <<"+">> \o withCc

\* formatPhoneNumber of sendSOSAlerts
formatPhoneNumber(phone) ==
    IF ~Truthy(phone) THEN Absent
    ELSE LET cleaned == StripNonDigits(phone)
             withCc == IF Len(cleaned) = 10 THEN <<"9", "1">> \o cleaned ELSE cleaned
         IN  IF withCc # <<>> /\ Head(withCc) = "+" THEN withCc ELSE <<"+">> \o withCc

\* bcrypt: the stored password is the hash of the secret
Hash(p) == <<"bcrypt", p>>

\* userSchema.methods.comparePassword
comparePassword(doc, candidate) == Hash(candidate) = doc.password

\* the schema default of loginAttempts: a document without the field reads 0
Attempts(doc) == IF doc.loginAttempts = Absent THEN 0 ELSE Val(doc.loginAttempts)

\* variant: the lock still holds at the instant of its expiry
isLocked_AtExpiry(doc, t) == doc.lockUntil # Absent /\ Val(doc.lockUntil) >= t

\* variant: the comparison of the virtual is the wrong way round
isLocked_Flipped(doc, t) == doc.lockUntil # Absent /\ Val(doc.lockUntil) < t

\* userSchema.virtual('isLocked')
isLocked(doc, t) == doc.lockUntil # Absent /\ Val(doc.lockUntil) > t

\* ------------------------------------------------------------------- Init

InitUser(u) ==
    [ isActive |-> TRUE,
      password |-> Hash("secret"),
      phoneNumber |-> IF u = "u1" THEN PhoneU1 ELSE IF u = "u2" THEN PhoneU2 ELSE PhoneU3,
      emergencyContact |->
          IF u = "u1"
          THEN [name |-> <<"k">>, phone |-> ContactU1, relationship |-> <<"k">>]
          ELSE IF u = "u3"
          THEN [name |-> <<"k">>, phone |-> ContactU3, relationship |-> <<"k">>]
          ELSE [name |-> Absent, phone |-> Absent, relationship |-> Absent],
      loginAttempts |-> Some(0),
      lockUntil |-> Absent,
      isPhoneVerified |-> FALSE,
      otpCode |-> Absent,
      otpExpiry |-> Absent ]

IdleTrig ==
    [ pc |-> "idle", tok |-> NoToken, user |-> NoUser, doc |-> Absent,
      location |-> Absent, timestamp |-> Absent, rec |-> Absent,
      dests |-> <<>>, burst |-> <<>>, body |-> <<>>, status |-> 0 ]

IdleLogin ==
    [ pc |-> "idle", identifier |-> "nobody", password |-> "guess", doc |-> Absent,
      upd |-> [kind |-> "none", lock |-> Absent], at |-> 0, status |-> 0,
      sawLocked |-> FALSE ]

IdleOtp ==
    [ pc |-> "idle", route |-> "send", tok |-> NoToken, code |-> <<>>,
      expiry |-> 0, at |-> 0, status |-> 0, accepted |-> "none" ]

\* no call of formatPhoneNumber has been made
IdleFmt == [phone |-> <<>>, called |-> FALSE, result |-> Absent]

IdleHist == [pc |-> "idle", tok |-> NoToken, status |-> 0, alerts |-> <<>>]

\* no /test-sms request has arrived
IdleTest == [pc |-> "idle", to |-> <<>>, sent |-> 0, status |-> 0]

IdleReg ==
    [ pc |-> "idle", email |-> "", username |-> "", phoneNumber |-> <<>>,
      status |-> 0 ]

\* the state after start-up, but for the alert store, the gateway
\* configuration and the argument of the normalisation
InitCommon ==
    /\ now = 0
    /\ ticks = 0
    /\ otps = [r \in Otps |-> IdleOtp]
    /\ issued = [u \in Users |-> [last |-> Absent, at |-> 0, prev |-> Absent]]
    /\ logins = [r \in Logins |-> IdleLogin]
    /\ streak = [u \in Users |-> [n |-> 0, at |-> 0]]
    /\ users = [u \in Users |-> InitUser(u)]
    /\ trig = [t \in Trigs |-> IdleTrig]
    /\ hist = IdleHist
    /\ testSms = IdleTest
    /\ regs = [r \in Regs |-> IdleReg]
    /\ accounts = <<>>

\* start-up with an empty alert store and the gateway credentials set
Init ==
    /\ InitCommon
    /\ sosLogs = <<>>
    /\ configured = TRUE
    /\ fmt = IdleFmt

\* ------------------------------------------------- alert dispatch (sos.js)

\* variant: the contact's address is read from the schema's field `phone`
ResolveDestinations_ReadsPhone(doc) ==
    <<policeNumber>>
    \o (IF Truthy(Field(doc.emergencyContact, "phone"))
        THEN <<formatPhoneNumber(Field(doc.emergencyContact, "phone"))>>
        ELSE <<>>)
    \o (IF Truthy(doc.phoneNumber) THEN <<formatPhoneNumber(doc.phoneNumber)>> ELSE <<>>)

\* the destinations of sendSOSAlerts in the order their bursts are started.
\* user.emergencyContact is a nested path of the schema and therefore always
\* a (truthy) object; the code reads its property `phoneNumber`.
ResolveDestinations(doc) ==
    <<policeNumber>>
    \o (IF Truthy(Field(doc.emergencyContact, "phoneNumber"))
        THEN <<formatPhoneNumber(Field(doc.emergencyContact, "phoneNumber"))>>
        ELSE <<>>)
    \o (IF Truthy(doc.phoneNumber) THEN <<formatPhoneNumber(doc.phoneNumber)>> ELSE <<>>)

\* new SOSLog({...}) of the trigger handler
NewSOSLog(t, u, doc, location, timestamp, clock) ==
    [ id |-> t,
      userId |-> u,
      userInfo |-> [username |-> u, phoneNumber |-> doc.phoneNumber],
      location |-> location,
      timestamp |-> IF Truthy(timestamp) THEN Val(timestamp) ELSE clock,
      status |-> "active",
      alertType |-> "emergency" ]

MapUrl == <<"https://maps.google.com/maps?q=">>
GpsUnavailable == <<"GPS unavailable">>

\* variant: the coordinates are interpolated the other way round
baseMessage_Swapped(location) ==
    IF Truthy(location)
    THEN MapUrl \o Interpolate(Val(location), "longitude") \o <<",">>
                \o Interpolate(Val(location), "latitude")
    ELSE GpsUnavailable

\* the 'Location:' line of baseMessage (the other lines do not depend on the
\* request): a text whose first element is the fixed part
baseMessage(location) ==
    IF Truthy(location)
    THEN MapUrl \o Interpolate(Val(location), "latitude") \o <<",">>
                \o Interpolate(Val(location), "longitude")
    ELSE GpsUnavailable

\* variant: the three calls are issued without awaiting any of them
FirstAttempt_NotAwaited == [i |-> 0, phase |-> "inflight", sent |-> BurstSize, allThrew |-> TRUE]

\* one destination's sendTripleSMS: i is the loop variable, sent the number
\* of client.messages.create calls issued, allThrew whether every call that
\* has returned so far threw
FirstAttempt == [i |-> 0, phase |-> "inflight", sent |-> 1, allThrew |-> TRUE]

\* variant: the loop runs one iteration short
NextIteration_OneShort(b) ==
    IF b.i + 2 < BurstSize
    THEN [b EXCEPT !.i = b.i + 1, !.phase = "inflight", !.sent = b.sent + 1]
    ELSE [b EXCEPT !.i = b.i + 1, !.phase = "done"]

\* the loop after the iteration i has ended: the next call, or the end
NextIteration(b) ==
    IF b.i + 1 < BurstSize
    THEN [b EXCEPT !.i = b.i + 1, !.phase = "inflight", !.sent = b.sent + 1]
    ELSE [b EXCEPT !.i = b.i + 1, !.phase = "done"]

\* variant: the loop stops at the first call that succeeds
AfterSendOk_EarlyExit(b) == [b EXCEPT !.phase = "done", !.allThrew = FALSE]

\* client.messages.create resolved: wait 2 seconds unless it was the last
AfterSendOk(b) ==
    IF b.i < BurstSize - 1
    THEN [b EXCEPT !.phase = "gate", !.allThrew = FALSE]
    ELSE NextIteration([b EXCEPT !.allThrew = FALSE])

\* variant: the exception ends the loop without the burst ever settling
AfterSendThrow_Stalls(b) == [b EXCEPT !.phase = "stalled"]

\* client.messages.create threw: the catch logs and the loop goes on
AfterSendThrow(b) == NextIteration(b)

\* variant: a failed save is logged and the handler carries on
OnSaveError_CarriesOn(r) == [r EXCEPT !.pc = "dispatch"]

\* the catch of the trigger handler: respond 500
OnSaveError(r) == [r EXCEPT !.pc = "done", !.status = 500]

\* POST /trigger arrives; authenticateUser reads the token and looks the
\* identity up (await User.findById)
TriggerRequest(t, tok, location, timestamp) ==
    /\ trig[t].pc = "idle"
    /\ \A s \in Trigs : s < t => trig[s].pc # "idle"
    /\ trig' = [trig EXCEPT ![t] =
                  IF tok = NoToken
                  THEN [@ EXCEPT !.pc = "done", !.status = 401]
                  ELSE [@ EXCEPT !.pc = "auth", !.tok = tok, !.location = location,
                                 !.timestamp = timestamp]]
    /\ UNCHANGED <<now, ticks, users, sosLogs, loginVars, otpVars, restVars>>

\* variant: authenticateUser does not look at isActive
TriggerAuth_IgnoresActive(t) ==
    /\ trig[t].pc = "auth"
    /\ LET u == trig[t].tok
           doc == users[u]
       IN  trig' = [trig EXCEPT ![t] =
                      IF u \notin Users THEN [@ EXCEPT !.pc = "done", !.status = 401]
                      ELSE IF isLocked(doc, now) THEN [@ EXCEPT !.pc = "done", !.status = 423]
                      ELSE [@ EXCEPT !.pc = "save", !.user = u, !.doc = Some(doc),
                                     !.rec = Some(NewSOSLog(t, u, doc, trig[t].location,
                                                            trig[t].timestamp, now))]]
    /\ UNCHANGED <<now, ticks, users, sosLogs, loginVars, otpVars, restVars>>

\* the lookup returned: the rest of authenticateUser, then the handler up to
\* await sosLog.save()
TriggerAuth(t) ==
    /\ trig[t].pc = "auth"
    /\ LET u == trig[t].tok
           doc == users[u]
       IN  trig' = [trig EXCEPT ![t] =
                      IF u \notin Users \/ ~doc.isActive
                      THEN [@ EXCEPT !.pc = "done", !.status = 401]
                      ELSE IF isLocked(doc, now) THEN [@ EXCEPT !.pc = "done", !.status = 423]
                      ELSE [@ EXCEPT !.pc = "save", !.user = u, !.doc = Some(doc),
                                     !.rec = Some(NewSOSLog(t, u, doc, trig[t].location,
                                                            trig[t].timestamp, now))]]
    /\ UNCHANGED <<now, ticks, users, sosLogs, loginVars, otpVars, restVars>>

\* the save lands in the store
TriggerSaveOk(t) ==
    /\ trig[t].pc = "save"
    /\ sosLogs' = Append(sosLogs, Val(trig[t].rec))
    /\ trig' = [trig EXCEPT ![t].pc = "dispatch"]
    /\ UNCHANGED <<now, ticks, users, loginVars, otpVars, restVars>>

\* the save is rejected by the store
TriggerSaveFail(t) ==
    /\ trig[t].pc = "save"
    /\ trig' = [trig EXCEPT ![t] = OnSaveError(@)]
    /\ UNCHANGED <<now, ticks, users, sosLogs, loginVars, otpVars, restVars>>

\* variant: each sendTripleSMS is awaited before the next one is called
StartBursts_OneByOne(dests) ==
    [d \in 1..Len(dests) |->
        IF d = 1 THEN FirstAttempt ELSE [FirstAttempt EXCEPT !.phase = "queued", !.sent = 0]]

\* smsPromises.push(sendTripleSMS(...)) for every destination: each call
\* runs up to its first await, the gateway call of attempt 1
StartBursts(dests) == [d \in 1..Len(dests) |-> FirstAttempt]

\* await sosLog.save() returned: sendSOSAlerts runs up to await Promise.all,
\* every sendTripleSMS having issued its first call
TriggerDispatch(t) ==
    /\ trig[t].pc = "dispatch"
    /\ LET dests == ResolveDestinations(Val(trig[t].doc))
       IN  trig' = [trig EXCEPT ![t].pc = "bursts", ![t].dests = dests,
                                ![t].body = baseMessage(trig[t].location),
                                ![t].burst = StartBursts(dests)]
    /\ UNCHANGED <<now, ticks, users, sosLogs, loginVars, otpVars, restVars>>

\* the gateway answers the call in flight for destination d; it accepts no
\* call made without credentials
SendOk(t, d) ==
    /\ configured
    /\ trig[t].pc = "bursts"
    /\ d \in 1..Len(trig[t].burst)
    /\ trig[t].burst[d].phase = "inflight"
    /\ trig' = [trig EXCEPT ![t].burst[d] = AfterSendOk(@)]
    /\ UNCHANGED <<now, ticks, users, sosLogs, loginVars, otpVars, restVars>>

\* the gateway call in flight for destination d throws
SendThrow(t, d) ==
    /\ trig[t].pc = "bursts"
    /\ d \in 1..Len(trig[t].burst)
    /\ trig[t].burst[d].phase = "inflight"
    /\ trig' = [trig EXCEPT ![t].burst[d] = AfterSendThrow(@)]
    /\ UNCHANGED <<now, ticks, users, sosLogs, loginVars, otpVars, restVars>>

\* the 2000 ms timer of destination d fires
GateElapsed(t, d) ==
    /\ trig[t].pc = "bursts"
    /\ d \in 1..Len(trig[t].burst)
    /\ trig[t].burst[d].phase = "gate"
    /\ trig' = [trig EXCEPT ![t].burst[d] = NextIteration(@)]
    /\ UNCHANGED <<now, ticks, users, sosLogs, loginVars, otpVars, restVars>>

\* variant: sendSOSAlerts is not awaited
AllBurstsDone_NotAwaited(r) == TRUE

\* await Promise.all(smsPromises): every sendTripleSMS has returned
AllBurstsDone(r) == \A d \in 1..Len(r.burst) : r.burst[d].phase = "done"

\* variant: a destination whose sends all threw fails the request
RespondSuccess_SurfacesFailure(r) ==
    IF \E d \in 1..Len(r.burst) : r.burst[d].allThrew
    THEN [r EXCEPT !.pc = "done", !.status = 500]
    ELSE [r EXCEPT !.pc = "done", !.status = 200]

\* res.json({success: true, ...}) after await sendSOSAlerts
RespondSuccess(r) == [r EXCEPT !.pc = "done", !.status = 200]

\* Promise.all resolved: sendSOSAlerts returns and the handler responds
TriggerRespond(t) ==
    /\ trig[t].pc = "bursts"
    /\ AllBurstsDone(trig[t])
    /\ trig' = [trig EXCEPT ![t] = RespondSuccess(@)]
    /\ UNCHANGED <<now, ticks, users, sosLogs, loginVars, otpVars, restVars>>

\* the body of the request in slot t: the first request of a behaviour
\* carries any location and timestamp, the requests that overlap it carry
\* neither
LocationsOf(t) == IF t = 1 THEN Locations ELSE {Absent}
TimestampsOf(t) == IF t = 1 THEN Timestamps ELSE {Absent}

SosNext ==
    \/ \E t \in Trigs, tok \in Users \cup {NoToken} :
          \E l \in LocationsOf(t), ts \in TimestampsOf(t) : TriggerRequest(t, tok, l, ts)
    \/ \E t \in Trigs : TriggerAuth(t)
    \/ \E t \in Trigs : TriggerSaveOk(t)
    \/ \E t \in Trigs : TriggerSaveFail(t)
    \/ \E t \in Trigs : TriggerDispatch(t)
    \/ \E t \in Trigs, d \in 1..3 : SendOk(t, d)
    \/ \E t \in Trigs, d \in 1..3 : SendThrow(t, d)
    \/ \E t \in Trigs, d \in 1..3 : GateElapsed(t, d)
    \/ \E t \in Trigs : TriggerRespond(t)

\* start-up with TWILIO_ACCOUNT_SID and TWILIO_AUTH_TOKEN set or not: the
\* client is built from them either way and no later code looks at them
SosInit ==
    /\ InitCommon
    /\ sosLogs = <<>>
    /\ configured \in BOOLEAN
    /\ fmt = IdleFmt

SosSpec == SosInit /\ [][SosNext]_vars

\* what the event loop and the store guarantee: a continuation that can run
\* does run, a timer that is due fires, and the store answers a lookup or a
\* save.  The gateway is outside the program: nothing makes a call to it
\* return.
SosFairness ==
    \A t \in Trigs :
        /\ WF_vars(TriggerAuth(t))
        /\ WF_vars(TriggerSaveOk(t) \/ TriggerSaveFail(t))
        /\ WF_vars(TriggerDispatch(t))
        /\ WF_vars(TriggerRespond(t))
        /\ \A d \in 1..3 : WF_vars(GateElapsed(t, d))

\* the steps of SosNext with requests that carry no location and no
\* timestamp: whether a request gets its answer does not depend on them
SosLiveNext ==
    \/ \E t \in Trigs, tok \in Users \cup {NoToken} : TriggerRequest(t, tok, Absent, Absent)
    \/ \E t \in Trigs : TriggerAuth(t)
    \/ \E t \in Trigs : TriggerSaveOk(t)
    \/ \E t \in Trigs : TriggerSaveFail(t)
    \/ \E t \in Trigs : TriggerDispatch(t)
    \/ \E t \in Trigs, d \in 1..3 : SendOk(t, d)
    \/ \E t \in Trigs, d \in 1..3 : SendThrow(t, d)
    \/ \E t \in Trigs, d \in 1..3 : GateElapsed(t, d)
    \/ \E t \in Trigs : TriggerRespond(t)

SosLiveSpec == SosInit /\ [][SosLiveNext]_vars /\ SosFairness

\* the gateway answers: a call in flight eventually returns or throws
GatewayFairness ==
    \A t \in Trigs : \A d \in 1..3 : WF_vars(SendOk(t, d) \/ SendThrow(t, d))

\* triggers carrying u1's token, or none
SosAnsweredNext ==
    \/ \E t \in Trigs, tok \in {"u1", NoToken} : TriggerRequest(t, tok, Absent, Absent)
    \/ \E t \in Trigs : TriggerAuth(t)
    \/ \E t \in Trigs : TriggerSaveOk(t)
    \/ \E t \in Trigs : TriggerSaveFail(t)
    \/ \E t \in Trigs : TriggerDispatch(t)
    \/ \E t \in Trigs, d \in 1..3 : SendOk(t, d)
    \/ \E t \in Trigs, d \in 1..3 : SendThrow(t, d)
    \/ \E t \in Trigs, d \in 1..3 : GateElapsed(t, d)
    \/ \E t \in Trigs : TriggerRespond(t)

\* the triggers with a store and a gateway that answer every call
SosAnsweredSpec ==
    SosInit /\ [][SosAnsweredNext]_vars /\ SosFairness /\ GatewayFairness

\* ------------------------------------------------------------- the clock

\* the instants the clock may jump to: the next millisecond and the instants
\* around every stored deadline
Deadlines ==
    {Val(users[u].lockUntil) : u \in {v \in Users : users[v].lockUntil # Absent}}
    \cup {Val(users[u].otpExpiry) : u \in {v \in Users : users[v].otpExpiry # Absent}}

TickTargets ==
    {t \in {now + 1} \cup UNION {{d - 1, d, d + 1} : d \in Deadlines} : t > now}

\* time passes
Tick ==
    /\ ticks < MaxTicks
    /\ ticks' = ticks + 1
    /\ \E t \in TickTargets : now' = t
    /\ UNCHANGED <<users, sosLogs, trig, loginVars, otpVars, restVars>>

\* ------------------------------------------- password login (auth.js, User)

\* variant: the lock is set one failure late
incLoginAttempts_OneLate(doc, t) ==
    IF doc.lockUntil # Absent /\ Val(doc.lockUntil) < t
    THEN [kind |-> "restart", lock |-> Absent]
    ELSE [kind |-> "inc",
          lock |-> IF Attempts(doc) + 1 > MaxAttempts /\ ~isLocked(doc, t)
                   THEN Some(t + LockDuration) ELSE Absent]

\* variant: the lock is set one failure early
incLoginAttempts_OneEarly(doc, t) ==
    IF doc.lockUntil # Absent /\ Val(doc.lockUntil) < t
    THEN [kind |-> "restart", lock |-> Absent]
    ELSE [kind |-> "inc",
          lock |-> IF Attempts(doc) + 2 >= MaxAttempts /\ ~isLocked(doc, t)
                   THEN Some(t + LockDuration) ELSE Absent]

\* the update document incLoginAttempts sends, computed from the loaded
\* document and Date.now()
incLoginAttempts(doc, t) ==
    IF doc.lockUntil # Absent /\ Val(doc.lockUntil) < t
    THEN [kind |-> "restart", lock |-> Absent]
    ELSE [kind |-> "inc",
          lock |-> IF Attempts(doc) + 1 >= MaxAttempts /\ ~isLocked(doc, t)
                   THEN Some(t + LockDuration) ELSE Absent]

\* variant: the reset clears the lock but keeps the counter
resetLoginAttempts_KeepsCount == [kind |-> "unlock", lock |-> Absent]

\* the update document resetLoginAttempts sends
resetLoginAttempts == [kind |-> "reset", lock |-> Absent]

\* updateOne applied by the store to the stored document: $inc adds to the
\* stored value (a missing field counts as 0), $set and $unset replace
ApplyUpdate(stored, upd) ==
    CASE upd.kind = "restart" ->
            [stored EXCEPT !.lockUntil = Absent, !.loginAttempts = Some(1)]
      [] upd.kind = "inc" ->
            [stored EXCEPT !.loginAttempts = Some(Attempts(stored) + 1),
                           !.lockUntil = IF upd.lock # Absent THEN upd.lock ELSE @]
      [] upd.kind = "reset" ->
            [stored EXCEPT !.loginAttempts = Absent, !.lockUntil = Absent]
      [] upd.kind = "unlock" ->
            [stored EXCEPT !.lockUntil = Absent]
      [] OTHER -> stored

\* the lockout rule counted from the responses alone: 5 failed logins in a
\* row since the last successful one, and less than LockDuration since the
\* fifth
LockedOut(u) == streak[u].n = MaxAttempts /\ now < streak[u].at + LockDuration

\* a request that is over: only what it carried and its response remain
Closed(l, code) ==
    [IdleLogin EXCEPT !.pc = "done", !.identifier = l.identifier,
                      !.password = l.password, !.status = code,
                      !.sawLocked = l.sawLocked]

\* variant: an identifier that matches nobody is answered 404
OnNoUser_NotFound(l) == [l EXCEPT !.pc = "done", !.status = 404]

\* if (!user): 401 'Invalid credentials', the answer to a wrong secret too
OnNoUser(l) == [l EXCEPT !.pc = "done", !.status = 401]

\* the login handler runs up to await User.findOne
ArriveLogin(r, id, pw) ==
    /\ logins' = [logins EXCEPT ![r] =
                    [IdleLogin EXCEPT !.pc = "find", !.identifier = id, !.password = pw]]
    /\ UNCHANGED <<now, ticks, users, sosVars, streak, otpVars, restVars>>

\* POST /login arrives and passes validation
LoginRequest(r, id, pw) ==
    /\ logins[r].pc \in {"idle", "done"}
    /\ \A q \in Logins : q < r => logins[q].pc \notin {"idle", "done"}
    /\ ArriveLogin(r, id, pw)

\* findOne({$or: [{email}, {username}], isActive: true}) returned: unknown or
\* inactive identity 401, locked identity 423, else await comparePassword
LoginFind(r) ==
    /\ logins[r].pc = "find"
    /\ LET id == logins[r].identifier
       IN  logins' = [logins EXCEPT ![r] =
             IF id \notin Users \/ ~users[id].isActive
             THEN OnNoUser(@)
             ELSE IF isLocked(users[id], now)
                  THEN [@ EXCEPT !.pc = "done", !.status = 423,
                                 !.sawLocked = LockedOut(id)]
                  ELSE [@ EXCEPT !.pc = "compare", !.doc = Some(users[id]),
                                 !.sawLocked = LockedOut(id)]]
    /\ UNCHANGED <<now, ticks, users, sosVars, streak, otpVars, restVars>>

\* comparePassword returned.  Wrong secret: incLoginAttempts builds its
\* update and the handler awaits it.  Right secret: the token is made, the
\* response is sent and the reset is left to setImmediate.
LoginCompare(r) ==
    /\ logins[r].pc = "compare"
    /\ LET doc == Val(logins[r].doc)
       IN  logins' = [logins EXCEPT ![r] =
             IF comparePassword(doc, logins[r].password)
             THEN [@ EXCEPT !.pc = "reset", !.status = 200, !.at = now,
                            !.upd = resetLoginAttempts]
             ELSE [@ EXCEPT !.pc = "inc", !.at = now,
                            !.upd = incLoginAttempts(doc, now)]]
    /\ UNCHANGED <<now, ticks, users, sosVars, streak, otpVars, restVars>>

\* the update of incLoginAttempts lands in the store; the handler responds 401
LoginIncLands(r) ==
    /\ logins[r].pc = "inc"
    /\ LET u == logins[r].identifier
       IN  /\ users' = [users EXCEPT ![u] = ApplyUpdate(@, logins[r].upd)]
           /\ streak' = [streak EXCEPT ![u] = [n |-> @.n + 1, at |-> logins[r].at]]
    /\ logins' = [logins EXCEPT ![r] = Closed(@, 401)]
    /\ UNCHANGED <<now, ticks, sosVars, otpVars, restVars>>

\* the setImmediate callback: the update of resetLoginAttempts lands (the
\* user.save() after it writes only the path lastLogin, which nothing reads)
LoginResetLands(r) ==
    /\ logins[r].pc = "reset"
    /\ LET u == logins[r].identifier
       IN  /\ users' = [users EXCEPT ![u] = ApplyUpdate(@, logins[r].upd)]
           /\ streak' = [streak EXCEPT ![u] = [n |-> 0, at |-> 0]]
    /\ logins' = [logins EXCEPT ![r] = Closed(@, 200)]
    /\ UNCHANGED <<now, ticks, sosVars, otpVars, restVars>>

NoLoginOpen == \A r \in Logins : logins[r].pc \in {"idle", "done"}

LoginNext ==
    \/ \E r \in Logins, id \in Identifiers, pw \in Passwords : LoginRequest(r, id, pw)
    \/ \E r \in Logins : LoginFind(r)
    \/ \E r \in Logins : LoginCompare(r)
    \/ \E r \in Logins : LoginIncLands(r)
    \/ \E r \in Logins : LoginResetLands(r)
    \/ Tick

\* login requests in any interleaving
LoginSpec == Init /\ [][LoginNext]_vars

\* login requests one after the other: a request arrives only when no other
\* login, its background update included, is still open
SerialLoginNext ==
    \/ \E r \in Logins, id \in Identifiers, pw \in Passwords :
          NoLoginOpen /\ LoginRequest(r, id, pw)
    \/ \E r \in Logins : LoginFind(r)
    \/ \E r \in Logins : LoginCompare(r)
    \/ \E r \in Logins : LoginIncLands(r)
    \/ \E r \in Logins : LoginResetLands(r)
    \/ Tick

SerialLoginSpec == Init /\ [][SerialLoginNext]_vars

\* the state after u1 has failed c times in a row at instant 0, c below the
\* limit, with MaxRace login requests about to arrive
RaceInit ==
    /\ now = 0
    /\ ticks = 0
    /\ otps = [r \in Otps |-> IdleOtp]
    /\ issued = [u \in Users |-> [last |-> Absent, at |-> 0, prev |-> Absent]]
    /\ logins = [r \in Racers |-> IdleLogin]
    /\ \E c \in 0..(MaxAttempts - 1) :
          /\ streak = [u \in Users |-> [n |-> IF u = "u1" THEN c ELSE 0, at |-> 0]]
          /\ users = [u \in Users |->
                        IF u = "u1" THEN [InitUser(u) EXCEPT !.loginAttempts = Some(c)]
                                    ELSE InitUser(u)]
    /\ trig = [t \in Trigs |-> IdleTrig]
    /\ hist = IdleHist
    /\ testSms = IdleTest
    /\ regs = [r \in Regs |-> IdleReg]
    /\ accounts = <<>>
    /\ sosLogs = <<>>
    /\ configured = TRUE
    /\ fmt = IdleFmt

\* POST /login for u1, each request once, in the order of the slots
RaceRequest(r, pw) ==
    /\ logins[r].pc = "idle"
    /\ \A q \in Racers : q < r => logins[q].pc # "idle"
    /\ ArriveLogin(r, "u1", pw)

RaceNext ==
    \/ \E r \in Racers, pw \in Passwords : RaceRequest(r, pw)
    \/ \E r \in Racers : LoginFind(r)
    \/ \E r \in Racers : LoginCompare(r)
    \/ \E r \in Racers : LoginIncLands(r)
    \/ \E r \in Racers : LoginResetLands(r)
    \/ Tick

\* a few login requests for the same identity, in any interleaving, after a
\* run of failures
RaceLoginSpec == RaceInit /\ [][RaceNext]_vars

\* ------------------------------------------- administration (admin routes)

\* variant: the alerts of the identity go with it
Deactivate_DropsAlerts(u) ==
    /\ users' = [users EXCEPT ![u].isActive = FALSE]
    /\ sosLogs' = SelectSeq(sosLogs, LAMBDA rec : rec.userId # u)
    /\ UNCHANGED <<now, ticks, trig, loginVars, otpVars, restVars>>

\* POST /users/:id/deactivate by an admin: user.isActive = false and the
\* save lands
Deactivate(u) ==
    /\ users' = [users EXCEPT ![u].isActive = FALSE]
    /\ UNCHANGED <<now, ticks, sosVars, loginVars, otpVars, restVars>>

\* the bearer tokens a trigger carries here: u1's, one whose identity is not
\* in the store, none
AdminTokens == {"u1", "nobody", NoToken}

\* triggers or logins, and an admin who deactivates u1 at any moment; a
\* behaviour holds requests of one of the two kinds
AdminNext ==
    \/ \E t \in Trigs, tok \in AdminTokens :
          \E l \in LocationsOf(t), ts \in TimestampsOf(t) :
             /\ \A r \in Logins : logins[r].pc = "idle"
             /\ TriggerRequest(t, tok, l, ts)
    \/ \E t \in Trigs : TriggerAuth(t)
    \/ \E t \in Trigs : TriggerSaveOk(t)
    \/ \E t \in Trigs : TriggerSaveFail(t)
    \/ \E t \in Trigs : TriggerDispatch(t)
    \/ \E t \in Trigs, d \in 1..3 : SendOk(t, d)
    \/ \E t \in Trigs, d \in 1..3 : SendThrow(t, d)
    \/ \E t \in Trigs, d \in 1..3 : GateElapsed(t, d)
    \/ \E t \in Trigs : TriggerRespond(t)
    \/ \E r \in Logins, id \in Identifiers, pw \in Passwords :
          /\ \A t \in Trigs : trig[t].pc = "idle"
          /\ LoginRequest(r, id, pw)
    \/ \E r \in Logins : LoginFind(r)
    \/ \E r \in Logins : LoginCompare(r)
    \/ \E r \in Logins : LoginIncLands(r)
    \/ \E r \in Logins : LoginResetLands(r)
    \/ Deactivate("u1")

AdminSpec == Init /\ [][AdminNext]_vars

\* ------------------- one-time codes (User, phone-verification.js, auth.js)

\* variant: the whole range from 0, without padding
OtpOf_FromZero(k) == toString((k * 1000000) \div RandomSamples)

\* Math.floor(100000 + Math.random() * 900000).toString(), Math.random()
\* being k / RandomSamples
OtpOf(k) == toString(100000 + (k * 900000) \div RandomSamples)

\* the codes a client can supply: the ones the generator can draw and one
\* it cannot
SuppliedCodes == {OtpOf(k) : k \in 0..(RandomSamples - 1)} \cup {<<"0", "0", "0", "0", "0", "0">>}

\* the bearer tokens a one-time-code request can carry
OtpTokens == {"u1", NoToken}

\* variant: the save leaves a pending code in place and renews its expiry
SaveChallenge_KeepsPending(stored, code, expiry) ==
    IF stored.otpCode # Absent
    THEN [stored EXCEPT !.otpExpiry = Some(expiry)]
    ELSE [stored EXCEPT !.otpCode = Some(code), !.otpExpiry = Some(expiry)]

\* user.save() after generateOTP: the modified paths otpCode and otpExpiry
\* replace the stored ones
SaveChallenge(stored, code, expiry) ==
    [stored EXCEPT !.otpCode = Some(code), !.otpExpiry = Some(expiry)]

\* userSchema.methods.generateOTP on the loaded document
generateOTP(doc, k, t) ==
    [doc EXCEPT !.otpCode = Some(OtpOf(k)), !.otpExpiry = Some(t + OtpValidity)]

\* variant: a code is still accepted at the instant it expires
verifyOTP_AtExpiry(doc, otp, t) ==
    doc.otpCode = Some(otp) /\ doc.otpExpiry # Absent /\ Val(doc.otpExpiry) >= t

\* userSchema.methods.verifyOTP
verifyOTP(doc, otp, t) ==
    doc.otpCode = Some(otp) /\ doc.otpExpiry # Absent /\ Val(doc.otpExpiry) > t

\* a request that is over: only what it carried and its response remain
ClosedOtp(o, code) ==
    [IdleOtp EXCEPT !.pc = "done", !.route = o.route, !.tok = o.tok,
                    !.code = IF o.route = "send" THEN <<>> ELSE o.code,
                    !.accepted = o.accepted, !.status = code]

\* authenticateUser reads the token and looks the identity up
ArriveOtp(r, route, tok, code) ==
    /\ otps' = [otps EXCEPT ![r] =
                  IF tok = NoToken
                  THEN [IdleOtp EXCEPT !.pc = "done", !.route = route, !.status = 401]
                  ELSE [IdleOtp EXCEPT !.pc = "auth", !.route = route, !.tok = tok,
                                       !.code = code]]
    /\ UNCHANGED <<now, ticks, users, sosVars, loginVars, issued, restVars>>

\* POST /send-otp or /verify-otp arrives
OtpRequest(r, route, tok, code) ==
    /\ otps[r].pc \in {"idle", "done"}
    /\ \A q \in Otps : q < r => otps[q].pc \notin {"idle", "done"}
    /\ ArriveOtp(r, route, tok, code)

\* the rest of authenticateUser; the handler then awaits User.findById
OtpAuth(r) ==
    /\ otps[r].pc = "auth"
    /\ LET doc == users[otps[r].tok]
       IN  otps' = [otps EXCEPT ![r] =
                      IF ~doc.isActive THEN ClosedOtp(@, 401)
                      ELSE IF isLocked(doc, now) THEN ClosedOtp(@, 423)
                      ELSE [@ EXCEPT !.pc = "find"]]
    /\ UNCHANGED <<now, ticks, users, sosVars, loginVars, issued, restVars>>

\* /send-otp, findById returned: a verified phone 400, else generateOTP on
\* the loaded document and await user.save()
SendOtpFind(r, k) ==
    /\ otps[r].pc = "find" /\ otps[r].route = "send"
    /\ LET doc == users[otps[r].tok]
           gen == generateOTP(doc, k, now)
       IN  otps' = [otps EXCEPT ![r] =
                      IF doc.isPhoneVerified
                      THEN ClosedOtp(@, 400)
                      ELSE [@ EXCEPT !.pc = "save", !.code = Val(gen.otpCode),
                                     !.expiry = Val(gen.otpExpiry), !.at = now]]
    /\ UNCHANGED <<now, ticks, users, sosVars, loginVars, issued, restVars>>

\* /send-otp, the save lands: the modified paths otpCode and otpExpiry are
\* written; the code goes out and the handler responds
SendOtpSave(r) ==
    /\ otps[r].pc = "save" /\ otps[r].route = "send"
    /\ LET u == otps[r].tok
       IN  /\ users' = [users EXCEPT ![u] = SaveChallenge(@, otps[r].code, otps[r].expiry)]
           /\ issued' = [issued EXCEPT ![u] =
                           [last |-> Some(otps[r].code), at |-> otps[r].at,
                            prev |-> issued[u].last]]
    /\ otps' = [otps EXCEPT ![r] = ClosedOtp(@, 200)]
    /\ UNCHANGED <<now, ticks, sosVars, loginVars, restVars>>

\* variant: a refused code uses the challenge up
VerifyOtpFind_RefusalClears(r) ==
    /\ otps[r].pc = "find" /\ otps[r].route = "verify"
    /\ LET doc == users[otps[r].tok]
       IN  /\ otps' = [otps EXCEPT ![r] =
                      IF doc.isPhoneVerified
                      THEN ClosedOtp(@, 400)
                      ELSE IF ~verifyOTP(doc, otps[r].code, now)
                           THEN ClosedOtp([@ EXCEPT !.accepted = "no"], 400)
                           ELSE [@ EXCEPT !.pc = "save", !.accepted = "yes"]]
           /\ users' = IF ~doc.isPhoneVerified /\ ~verifyOTP(doc, otps[r].code, now)
                       THEN [users EXCEPT ![otps[r].tok].otpCode = Absent,
                                          ![otps[r].tok].otpExpiry = Absent]
                       ELSE users
    /\ UNCHANGED <<now, ticks, sosVars, loginVars, issued, restVars>>

\* /verify-otp, findById returned: a verified phone 400, a code verifyOTP
\* refuses 400, else the handler marks the phone verified, clears the code
\* and awaits user.save()
VerifyOtpFind(r) ==
    /\ otps[r].pc = "find" /\ otps[r].route = "verify"
    /\ LET doc == users[otps[r].tok]
       IN  otps' = [otps EXCEPT ![r] =
                      IF doc.isPhoneVerified
                      THEN ClosedOtp(@, 400)
                      ELSE IF ~verifyOTP(doc, otps[r].code, now)
                           THEN ClosedOtp([@ EXCEPT !.accepted = "no"], 400)
                           ELSE [@ EXCEPT !.pc = "save", !.accepted = "yes"]]
    /\ UNCHANGED <<now, ticks, users, sosVars, loginVars, issued, restVars>>

\* /verify-otp, the save lands: isPhoneVerified is set, otpCode and
\* otpExpiry are unset; the handler responds
VerifyOtpSave(r) ==
    /\ otps[r].pc = "save" /\ otps[r].route = "verify"
    /\ users' = [users EXCEPT ![otps[r].tok].isPhoneVerified = TRUE,
                              ![otps[r].tok].otpCode = Absent,
                              ![otps[r].tok].otpExpiry = Absent]
    /\ otps' = [otps EXCEPT ![r] = ClosedOtp(@, 200)]
    /\ UNCHANGED <<now, ticks, sosVars, loginVars, issued, restVars>>

\* POST /login/verify-otp arrives with userId and otp in its body and passes
\* validation; no token is asked for: await User.findById
ArriveLoginOtp(r, userId, code) ==
    /\ otps' = [otps EXCEPT ![r] =
                  [IdleOtp EXCEPT !.pc = "find", !.route = "login", !.tok = userId,
                                  !.code = code]]
    /\ UNCHANGED <<now, ticks, users, sosVars, loginVars, issued, restVars>>

\* /login/verify-otp, findById returned: unknown or inactive identity 404, a
\* code verifyOTP refuses 400, else the handler clears the code and awaits
\* user.save()
LoginOtpFind(r) ==
    /\ otps[r].pc = "find" /\ otps[r].route = "login"
    /\ LET u == otps[r].tok
       IN  otps' = [otps EXCEPT ![r] =
                      IF u \notin Users \/ ~users[u].isActive
                      THEN ClosedOtp(@, 404)
                      ELSE IF ~verifyOTP(users[u], otps[r].code, now)
                           THEN ClosedOtp([@ EXCEPT !.accepted = "no"], 400)
                           ELSE [@ EXCEPT !.pc = "save", !.accepted = "yes"]]
    /\ UNCHANGED <<now, ticks, users, sosVars, loginVars, issued, restVars>>

\* /login/verify-otp, the save lands: otpCode and otpExpiry are unset (and
\* lastLogin written); the handler makes the token and responds
LoginOtpSave(r) ==
    /\ otps[r].pc = "save" /\ otps[r].route = "login"
    /\ users' = [users EXCEPT ![otps[r].tok].otpCode = Absent,
                              ![otps[r].tok].otpExpiry = Absent]
    /\ otps' = [otps EXCEPT ![r] = ClosedOtp(@, 200)]
    /\ UNCHANGED <<now, ticks, sosVars, loginVars, issued, restVars>>

OtpNext ==
    \/ \E r \in Otps, route \in {"send", "verify"}, tok \in OtpTokens, c \in SuppliedCodes :
          OtpRequest(r, route, tok, IF route = "verify" THEN c ELSE <<>>)
    \/ \E r \in Otps : OtpAuth(r)
    \/ \E r \in Otps, k \in 0..(RandomSamples - 1) : SendOtpFind(r, k)
    \/ \E r \in Otps : SendOtpSave(r)
    \/ \E r \in Otps : VerifyOtpFind(r)
    \/ \E r \in Otps : VerifyOtpSave(r)
    \/ Tick

OtpSpec == Init /\ [][OtpNext]_vars

\* the state after /send-otp has issued the first code the generator can
\* draw to u1 at instant 0, with MaxRace requests about to arrive
ChallengeInit ==
    /\ now = 0
    /\ ticks = 0
    /\ otps = [r \in Racers |-> IdleOtp]
    /\ issued = [u \in Users |->
                   IF u = "u1" THEN [last |-> Some(OtpOf(0)), at |-> 0, prev |-> Absent]
                               ELSE [last |-> Absent, at |-> 0, prev |-> Absent]]
    /\ logins = [r \in Logins |-> IdleLogin]
    /\ streak = [u \in Users |-> [n |-> 0, at |-> 0]]
    /\ users = [u \in Users |->
                  IF u = "u1" THEN SaveChallenge(InitUser(u), OtpOf(0), OtpValidity)
                              ELSE InitUser(u)]
    /\ trig = [t \in Trigs |-> IdleTrig]
    /\ hist = IdleHist
    /\ testSms = IdleTest
    /\ regs = [r \in Regs |-> IdleReg]
    /\ accounts = <<>>
    /\ sosLogs = <<>>
    /\ configured = TRUE
    /\ fmt = IdleFmt

\* the codes the requests for u1's challenge carry: the issued one and one
\* the generator cannot draw
ChallengeCodes == {OtpOf(0), <<"0", "0", "0", "0", "0", "0">>}

\* a request about u1's challenge arrives, each request once, in the order
\* of the slots
ChallengeRequest(r, route, code) ==
    /\ otps[r].pc = "idle"
    /\ \A q \in Racers : q < r => otps[q].pc # "idle"
    /\ IF route = "login" THEN ArriveLoginOtp(r, "u1", code)
                          ELSE ArriveOtp(r, route, "u1", code)

ChallengeNext ==
    \/ \E r \in Racers : ChallengeRequest(r, "send", <<>>)
    \/ \E r \in Racers, route \in {"verify", "login"}, c \in ChallengeCodes :
          ChallengeRequest(r, route, c)
    \/ \E r \in Racers : OtpAuth(r)
    \/ \E r \in Racers, k \in 0..(RandomSamples - 1) : SendOtpFind(r, k)
    \/ \E r \in Racers : SendOtpSave(r)
    \/ \E r \in Racers : VerifyOtpFind(r)
    \/ \E r \in Racers : VerifyOtpSave(r)
    \/ \E r \in Racers : LoginOtpFind(r)
    \/ \E r \in Racers : LoginOtpSave(r)
    \/ Tick

\* a few requests about one pending challenge, through both verification
\* routes, in any interleaving
ChallengeSpec == ChallengeInit /\ [][ChallengeNext]_vars

\* the two routes that hand out a session token: password logins one after
\* the other, and one /login/verify-otp request for u1's pending code
TokenNext ==
    \/ \E r \in Logins, id \in Identifiers, pw \in Passwords :
          NoLoginOpen /\ LoginRequest(r, id, pw)
    \/ \E r \in Logins : LoginFind(r)
    \/ \E r \in Logins : LoginCompare(r)
    \/ \E r \in Logins : LoginIncLands(r)
    \/ \E r \in Logins : LoginResetLands(r)
    \/ \E c \in ChallengeCodes : ChallengeRequest(1, "login", c)
    \/ LoginOtpFind(1)
    \/ LoginOtpSave(1)
    \/ Tick

TokenSpec == ChallengeInit /\ [][TokenNext]_vars

\* ------------------------------------------------- registration (auth.js)

\* what a registration request can carry
Emails == {"a@x.in", "b@x.in"}
Usernames == {"anna", "ben"}
\* a ten-digit national number, and the same number with its country code
NationalPhone == <<"9", "0", "0", "0", "0", "0", "0", "0", "0", "9">>
RegPhones == {NationalPhone, <<"+", "9", "1">> \o NationalPhone}

\* the unique keys of a stored identity: the identities of Init have their
\* name as handle, the registered ones are in accounts
KeysOf(u) == [email |-> u, username |-> u, phoneNumber |-> users[u].phoneNumber]
StoredKeys == {KeysOf(u) : u \in Users} \cup {accounts[k] : k \in 1..Len(accounts)}

\* phoneNumber.startsWith('+') ? phoneNumber : '+91' + phoneNumber
formattedPhoneNumber(phoneNumber) ==
    IF phoneNumber # <<>> /\ Head(phoneNumber) = "+"
    THEN phoneNumber
    ELSE <<"+", "9", "1">> \o phoneNumber

\* User.findOne({ $or: [{ email }, { username }, { phoneNumber }] }) with the
\* values of the request body
existingUser(email, username, phoneNumber) ==
    \E k \in StoredKeys :
        k.email = email \/ k.username = username \/ k.phoneNumber = phoneNumber

\* the unique indexes of the schema: email and username
DuplicateKey(email, username) ==
    \E k \in StoredKeys : k.email = email \/ k.username = username

\* POST /register/indian or /register/foreign arrives with every required
\* field: await User.findOne
RegisterRequest(r, email, username, phoneNumber) ==
    /\ regs[r].pc = "idle"
    /\ \A q \in Regs : q < r => regs[q].pc # "idle"
    /\ regs' = [regs EXCEPT ![r] = [@ EXCEPT !.pc = "find", !.email = email,
                                              !.username = username,
                                              !.phoneNumber = phoneNumber]]
    /\ UNCHANGED <<now, ticks, users, sosVars, loginVars, otpVars, configured, fmt, hist, accounts, testSms>>

\* the lookup returned: 400 when somebody was found, otherwise the document
\* is built with the formatted number and await user.save() starts
RegisterFind(r) ==
    /\ regs[r].pc = "find"
    /\ regs' = [regs EXCEPT ![r] =
                  IF existingUser(@.email, @.username, @.phoneNumber)
                  THEN [@ EXCEPT !.pc = "done", !.status = 400]
                  ELSE [@ EXCEPT !.pc = "save",
                                 !.phoneNumber = formattedPhoneNumber(regs[r].phoneNumber)]]
    /\ UNCHANGED <<now, ticks, users, sosVars, loginVars, otpVars, configured, fmt, hist, accounts, testSms>>

\* the insert lands in the store: 201
RegisterSaveOk(r) ==
    /\ regs[r].pc = "save"
    /\ ~DuplicateKey(regs[r].email, regs[r].username)
    /\ accounts' = Append(accounts, [email |-> regs[r].email, username |-> regs[r].username,
                                      phoneNumber |-> regs[r].phoneNumber])
    /\ regs' = [regs EXCEPT ![r].pc = "done", ![r].status = 201]
    /\ UNCHANGED <<now, ticks, users, sosVars, loginVars, otpVars, configured, fmt, hist, testSms>>

\* the insert is rejected by a unique index: the catch responds 500
RegisterSaveDuplicate(r) ==
    /\ regs[r].pc = "save"
    /\ DuplicateKey(regs[r].email, regs[r].username)
    /\ regs' = [regs EXCEPT ![r].pc = "done", ![r].status = 500]
    /\ UNCHANGED <<now, ticks, users, sosVars, loginVars, otpVars, configured, fmt, hist, accounts, testSms>>

RegNext ==
    \/ \E r \in Regs, e \in Emails, u \in Usernames, p \in RegPhones :
          RegisterRequest(r, e, u, p)
    \/ \E r \in Regs : RegisterFind(r)
    \/ \E r \in Regs : RegisterSaveOk(r)
    \/ \E r \in Regs : RegisterSaveDuplicate(r)

RegSpec == Init /\ [][RegNext]_vars

\* ---------------------------------------- triggers of a locked identity

\* the state after u1 has failed MaxAttempts times in a row at instant 0
LockedInit ==
    /\ now = 0
    /\ ticks = 0
    /\ otps = [r \in Otps |-> IdleOtp]
    /\ issued = [u \in Users |-> [last |-> Absent, at |-> 0, prev |-> Absent]]
    /\ logins = [r \in Logins |-> IdleLogin]
    /\ streak = [u \in Users |-> [n |-> IF u = "u1" THEN MaxAttempts ELSE 0, at |-> 0]]
    /\ users = [u \in Users |->
                  IF u = "u1"
                  THEN [InitUser(u) EXCEPT !.loginAttempts = Some(MaxAttempts),
                                           !.lockUntil = Some(LockDuration)]
                  ELSE InitUser(u)]
    /\ trig = [t \in Trigs |-> IdleTrig]
    /\ hist = IdleHist
    /\ testSms = IdleTest
    /\ regs = [r \in Regs |-> IdleReg]
    /\ accounts = <<>>
    /\ sosLogs = <<>>
    /\ configured = TRUE
    /\ fmt = IdleFmt

\* triggers carrying u1's token while the clock passes u1's lock-expiry
LockedSosNext ==
    \/ \E t \in Trigs : TriggerRequest(t, "u1", Absent, Absent)
    \/ \E t \in Trigs : TriggerAuth(t)
    \/ \E t \in Trigs : TriggerSaveOk(t)
    \/ \E t \in Trigs : TriggerSaveFail(t)
    \/ \E t \in Trigs : TriggerDispatch(t)
    \/ \E t \in Trigs, d \in 1..3 : SendOk(t, d)
    \/ \E t \in Trigs, d \in 1..3 : SendThrow(t, d)
    \/ \E t \in Trigs, d \in 1..3 : GateElapsed(t, d)
    \/ \E t \in Trigs : TriggerRespond(t)
    \/ Tick

LockedSosSpec == LockedInit /\ [][LockedSosNext]_vars

\* --------------------------------------------------- /test-sms (sos.js)

\* the phoneNumber a /test-sms body carries: none, or a ten-digit number
TestPhones == {<<>>, NationalPhone}

\* the phoneNumber of the handler's mock user
MockPhone == <<"+", "9", "1", "9", "8", "7", "6", "5", "4", "3", "2", "1", "0">>

\* POST /test-sms arrives; the route has no middleware: the handler formats
\* phoneNumber || user.phoneNumber and awaits client.messages.create
TestSmsRequest(phone) ==
    /\ testSms.pc = "idle"
    /\ testSms' = [testSms EXCEPT !.pc = "inflight", !.sent = 1,
                      !.to = formatPhoneNumber(IF Truthy(phone) THEN phone ELSE MockPhone)]
    /\ UNCHANGED <<now, ticks, users, sosVars, loginVars, otpVars,
                   configured, fmt, hist, regVars>>

\* the gateway answers the call: 200 'Test SMS sent successfully'
TestSmsOk ==
    /\ configured
    /\ testSms.pc = "inflight"
    /\ testSms' = [testSms EXCEPT !.pc = "done", !.status = 200]
    /\ UNCHANGED <<now, ticks, users, sosVars, loginVars, otpVars,
                   configured, fmt, hist, regVars>>

\* the gateway call throws: 500 'Test SMS failed'
TestSmsThrow ==
    /\ testSms.pc = "inflight"
    /\ testSms' = [testSms EXCEPT !.pc = "done", !.status = 500]
    /\ UNCHANGED <<now, ticks, users, sosVars, loginVars, otpVars,
                   configured, fmt, hist, regVars>>

\* the two routes of sos.js that call the gateway
GatewayNext ==
    \/ \E t \in Trigs, tok \in {"u1", NoToken} : TriggerRequest(t, tok, Absent, Absent)
    \/ \E t \in Trigs : TriggerAuth(t)
    \/ \E t \in Trigs : TriggerSaveOk(t)
    \/ \E t \in Trigs : TriggerSaveFail(t)
    \/ \E t \in Trigs : TriggerDispatch(t)
    \/ \E t \in Trigs, d \in 1..3 : SendOk(t, d)
    \/ \E t \in Trigs, d \in 1..3 : SendThrow(t, d)
    \/ \E t \in Trigs, d \in 1..3 : GateElapsed(t, d)
    \/ \E t \in Trigs : TriggerRespond(t)
    \/ \E phone \in TestPhones : TestSmsRequest(phone)
    \/ TestSmsOk
    \/ TestSmsThrow

GatewaySpec == SosInit /\ [][GatewayNext]_vars

\* ------------------------------------------------ alert history (sos.js)

\* the alert store when the history is read: up to MaxLogs records that
\* earlier triggers of u1 saved, with the server's clock (0) or the client's
\* instant (7) as their timestamp, and among them up to MaxOther records of u2
HistInit ==
    /\ InitCommon
    /\ configured = TRUE
    /\ fmt = IdleFmt
    /\ \E n \in 0..MaxLogs :
         \E ts \in [1..n -> Timestamps], other \in SUBSET (1..n) :
            /\ Cardinality(other) <= MaxOther
            /\ sosLogs = [k \in 1..n |->
                            IF k \in other
                            THEN NewSOSLog(k, "u2", InitUser("u2"), Absent, Absent, 0)
                            ELSE NewSOSLog(k, "u1", InitUser("u1"), Absent, ts[k], 0)]

\* SOSLog.find({ userId: ... })
FindByUser(logs, u) == SelectSeq(logs, LAMBDA r : r.userId = u)

\* a record put into a list that is sorted by descending timestamp, behind
\* the records that are not older
RECURSIVE InsertDesc(_, _)
InsertDesc(r, sorted) ==
    IF sorted = <<>> THEN <<r>>
    ELSE IF Head(sorted).timestamp >= r.timestamp
         THEN <<Head(sorted)>> \o InsertDesc(r, Tail(sorted))
         ELSE <<r>> \o sorted

\* .sort({ timestamp: -1 }); records of equal timestamp stay in store order
RECURSIVE SortDesc(_)
SortDesc(logs) ==
    IF logs = <<>> THEN <<>>
    ELSE InsertDesc(logs[Len(logs)], SortDesc(SubSeq(logs, 1, Len(logs) - 1)))

\* variant: the cut is one record late
Limit_OneMore(logs, n) == IF Len(logs) <= n + 1 THEN logs ELSE SubSeq(logs, 1, n + 1)

\* .limit(n)
Limit(logs, n) == IF Len(logs) <= n THEN logs ELSE SubSeq(logs, 1, n)

\* GET /history arrives; authenticateUser reads the token and looks the
\* identity up (await User.findById)
HistoryRequest(tok) ==
    /\ hist.pc = "idle"
    /\ hist' = IF tok = NoToken
               THEN [hist EXCEPT !.pc = "done", !.status = 401]
               ELSE [hist EXCEPT !.pc = "auth", !.tok = tok]
    /\ UNCHANGED <<now, ticks, users, sosVars, loginVars, otpVars, configured, fmt, regVars, testSms>>

\* the lookup returned: the rest of authenticateUser, then the handler up to
\* await SOSLog.find(...)
HistoryAuth ==
    /\ hist.pc = "auth"
    /\ LET doc == users[hist.tok]
       IN  hist' = IF ~doc.isActive THEN [hist EXCEPT !.pc = "done", !.status = 401]
                   ELSE IF isLocked(doc, now) THEN [hist EXCEPT !.pc = "done", !.status = 423]
                   ELSE [hist EXCEPT !.pc = "find"]
    /\ UNCHANGED <<now, ticks, users, sosVars, loginVars, otpVars, configured, fmt, regVars, testSms>>

\* the query returned: res.json({success: true, alerts: sosLogs})
HistoryFind ==
    /\ hist.pc = "find"
    /\ hist' = [hist EXCEPT !.pc = "done", !.status = 200,
                            !.alerts = Limit(SortDesc(FindByUser(sosLogs, hist.tok)),
                                             HistoryLimit)]
    /\ UNCHANGED <<now, ticks, users, sosVars, loginVars, otpVars, configured, fmt, regVars, testSms>>

\* the query was rejected by the store: the catch responds 500
HistoryFindFail ==
    /\ hist.pc = "find"
    /\ hist' = [hist EXCEPT !.pc = "done", !.status = 500]
    /\ UNCHANGED <<now, ticks, users, sosVars, loginVars, otpVars, configured, fmt, regVars, testSms>>

HistNext ==
    \/ \E tok \in {"u1", "u2", NoToken} : HistoryRequest(tok)
    \/ HistoryAuth
    \/ HistoryFind
    \/ HistoryFindFail

HistSpec == HistInit /\ [][HistNext]_vars

\* ------------------------------------- normalisation of an address (sos.js)

\* the characters an address is written with: a digit, the plus sign and a
\* separator
PhoneChars == {"9", "+", "-"}

\* a ten-digit national number
ExamplePhone == <<"9", "8", "7", "6", "5", "4", "3", "2", "1", "0">>

\* the addresses formatPhoneNumber is called with: every text of at most
\* MaxPhoneLen characters, and the addresses the stored identities hold
PhoneTexts ==
    UNION {[1..n -> PhoneChars] : n \in 0..MaxPhoneLen}
    \cup {ExamplePhone, PhoneU1, PhoneU2, PhoneU3, ContactU1, ContactU3}

NormInit ==
    /\ InitCommon
    /\ sosLogs = <<>>
    /\ configured = TRUE
    /\ fmt \in {[IdleFmt EXCEPT !.phone = p] : p \in PhoneTexts}

\* formatPhoneNumber(phone) is called and returns
FormatCall ==
    /\ ~fmt.called
    /\ fmt' = [fmt EXCEPT !.called = TRUE, !.result = formatPhoneNumber(fmt.phone)]
    /\ UNCHANGED <<now, ticks, users, sosVars, loginVars, otpVars, configured, hist, regVars, testSms>>

NormNext == FormatCall

NormSpec == NormInit /\ [][NormNext]_vars

\* ------------------------------------------------ claims: alert dispatch

\* number of gateway calls issued so far for trigger record r
RECURSIVE SumSent(_, _)
SumSent(b, n) == IF n = 0 THEN 0 ELSE b[n].sent + SumSent(b, n - 1)
Sent(r) == SumSent(r.burst, Len(r.burst))

StoredActive(logs, t) ==
    \E k \in 1..Len(logs) : logs[k].id = t /\ logs[k].status = "active"

\* C1: the AlertRecord of a trigger is in the store, with status 'active',
\* before any send of that trigger is issued, and a trigger whose save
\* failed never issues a send.
C1_PersistBeforeSend ==
    /\ [][\A t \in Trigs : Sent(trig'[t]) > Sent(trig[t]) => StoredActive(sosLogs, t)]_vars
    /\ [](\A t \in Trigs : trig[t].status = 500 => Sent(trig[t]) = 0)
    /\ [](\A t \in Trigs : Sent(trig[t]) > 0 => StoredActive(sosLogs, t))

C1_Witness ==
    \E t \in Trigs : trig[t].pc = "bursts" /\ Sent(trig[t]) > 0 /\ StoredActive(sosLogs, t)

C3_ThrowingDestinationIsolated ==
    \A t \in Trigs :
        (\E d \in 1..Len(trig[t].burst) :
            trig[t].burst[d].phase = "done" /\ trig[t].burst[d].allThrew)
        => /\ StoredActive(sosLogs, t)
           /\ trig[t].status \in {0, 200}
           /\ \A e \in 1..Len(trig[t].burst) :
                 trig[t].burst[e].phase = "done" => trig[t].burst[e].sent = BurstSize
           /\ (AllBurstsDone(trig[t]) => ENABLED TriggerRespond(t) \/ trig[t].status = 200)

C3_Witness ==
    \E t \in Trigs :
        /\ trig[t].status = 200
        /\ \E d, e \in 1..Len(trig[t].burst) :
              /\ trig[t].burst[d].allThrew
              /\ ~trig[t].burst[e].allThrew /\ trig[t].burst[e].sent = BurstSize

\* C4: a destination's burst issues exactly 3 sends whatever the outcomes:
\* never more than 3, and it ends only when 3 have been issued.
C4_ExactlyThreeSends ==
    \A t \in Trigs : \A d \in 1..Len(trig[t].burst) :
        /\ trig[t].burst[d].sent <= BurstSize
        /\ trig[t].burst[d].phase = "done" => trig[t].burst[d].sent = BurstSize
        /\ trig[t].burst[d].phase # "done" => trig[t].burst[d].sent = trig[t].burst[d].i + 1

C4_Witness ==
    \E t \in Trigs : \E d \in 1..Len(trig[t].burst) :
        /\ trig[t].burst[d].phase = "done" /\ trig[t].burst[d].sent = BurstSize
        /\ ~trig[t].burst[d].allThrew
        /\ trig[t].pc = "bursts"

\* C10: the destinations of a trigger are, in this order, the emergency
\* services address, the identity's stored emergency contact address when it
\* has one, and the identity's own address.
ExpectedDestinations(doc) ==
    <<policeNumber>>
    \o (IF Truthy(doc.emergencyContact.phone)
        THEN <<formatPhoneNumber(doc.emergencyContact.phone)>> ELSE <<>>)
    \o <<formatPhoneNumber(doc.phoneNumber)>>

C10_DestinationOrder ==
    \A t \in Trigs : trig[t].pc = "bursts" =>
        trig[t].dests = ExpectedDestinations(Val(trig[t].doc))

\* ------------------------------------------------ claims: account lockout

\* C5: after 5 failed authentications in a row the identity is locked until
\* LockDuration after the fifth, and every login attempt made before that
\* instant is answered 423, also with the right secret.
C5_LockedAfterFiveFailures ==
    /\ \A u \in Users : LockedOut(u) =>
          /\ users[u].lockUntil = Some(streak[u].at + LockDuration)
          /\ now < Val(users[u].lockUntil)
    /\ \A r \in Logins :
          logins[r].sawLocked => logins[r].pc = "done" /\ logins[r].status = 423

C5_Witness ==
    \E r \in Logins :
        /\ logins[r].sawLocked /\ logins[r].status = 423
        /\ logins[r].password = "secret"
        /\ streak[logins[r].identifier].n = MaxAttempts

\* C6: a login attempt on an identity whose lock is active is answered 423
\* whatever the secret, and changes neither the failed-attempt counter nor
\* the lock-expiry.
C6_LockedAttemptNotCounted ==
    [][\A r \in Logins :
          LET u == logins[r].identifier
          IN  (/\ logins[r].pc = "find" /\ logins'[r].pc # "find"
               /\ u \in Users /\ users[u].isActive
               /\ users[u].lockUntil # Absent /\ now < Val(users[u].lockUntil))
              => /\ logins'[r].pc = "done" /\ logins'[r].status = 423
                 /\ users' = users]_vars

C6_Witness ==
    \E r \in Logins :
        /\ logins[r].pc = "done" /\ logins[r].status = 423
        /\ logins[r].password = "secret"
        /\ users[logins[r].identifier].lockUntil # Absent
        /\ now < Val(users[logins[r].identifier].lockUntil)

\* C7: a successful authentication of an identity whose counter is below 5
\* leaves the stored counter at 0 and no lock-expiry on the identity.
C7_SuccessResetsCounter ==
    /\ [][\A r \in Logins :
            (/\ logins[r].pc = "reset" /\ logins'[r].pc = "done"
             /\ Attempts(Val(logins[r].doc)) < MaxAttempts)
            => /\ Attempts(users'[logins[r].identifier]) = 0
               /\ users'[logins[r].identifier].lockUntil = Absent]_vars
    /\ [](\A r \in Logins :
            (logins[r].pc = "reset" /\ Attempts(Val(logins[r].doc)) < MaxAttempts)
            => users[logins[r].identifier].lockUntil = Absent)

C7_Witness ==
    \E r \in Logins :
        /\ logins[r].pc = "done" /\ logins[r].status = 200
        /\ logins[r].identifier \in Users
        /\ streak[logins[r].identifier].n = 0
        /\ Attempts(users[logins[r].identifier]) = 0
        /\ users[logins[r].identifier].loginAttempts = Absent

\* ------------------------------------------------ claims: one-time codes

\* the step in which request r has its supplied code checked by verifyOTP
VerifyDecision(r) == otps[r].pc = "find" /\ otps'[r].accepted # "none"

\* C8: a code is accepted exactly when it equals the stored code and less
\* than OtpValidity has passed since that code was issued.
C8_AcceptedWithinValidity ==
    [][\A r \in Otps :
          VerifyDecision(r) =>
             LET u == otps[r].tok
             IN  (otps'[r].accepted = "yes")
                 <=> (/\ users[u].otpCode = Some(otps[r].code)
                      /\ issued[u].last = Some(otps[r].code)
                      /\ now < issued[u].at + OtpValidity)]_vars

C8_Witness ==
    \E r \in Otps :
        /\ otps[r].route = "verify" /\ otps[r].accepted = "yes"
        /\ otps[r].pc = "save"
        /\ now = issued[otps[r].tok].at

\* C9 as stated: once a challenge has been re-issued, the code of the
\* earlier issuance is refused.
C9_EarlierCodeRefused ==
    [][\A r \in Otps :
          (/\ VerifyDecision(r)
           /\ issued[otps[r].tok].prev = Some(otps[r].code))
          => otps'[r].accepted = "no"]_vars

\* C9 amended: only the most recently issued code is ever accepted; the code
\* of the earlier issuance is refused whenever it differs from it.
C9_OnlyLatestCodeAccepted ==
    [][\A r \in Otps :
          VerifyDecision(r) =>
             /\ otps'[r].accepted = "yes" => issued[otps[r].tok].last = Some(otps[r].code)
             /\ (/\ issued[otps[r].tok].prev = Some(otps[r].code)
                 /\ issued[otps[r].tok].last # issued[otps[r].tok].prev)
                => otps'[r].accepted = "no"]_vars

C9_Witness ==
    \E r \in Otps :
        /\ otps[r].route = "verify" /\ otps[r].accepted = "no"
        /\ issued[otps[r].tok].prev = Some(otps[r].code)
        /\ issued[otps[r].tok].last # Absent
        /\ issued[otps[r].tok].last # issued[otps[r].tok].prev
        /\ now < issued[otps[r].tok].at + OtpValidity

\* ------------------------------------------- claims: address normalisation

\* the digits of a text, in their order
DigitsOf(s) == SelectSeq(s, LAMBDA c : c \in Digit)

\* C11: for every non-empty address the normalisation returns '+' followed by
\* the address with every non-digit removed, the country code 91 put in front
\* of the digits exactly when there are exactly ten of them.
C11_NormalisedForm ==
    (fmt.called /\ fmt.phone # <<>>) =>
        fmt.result = <<"+">>
                     \o (IF Len(DigitsOf(fmt.phone)) = 10 THEN <<"9", "1">> ELSE <<>>)
                     \o DigitsOf(fmt.phone)

\* "9876543210" has been normalised to "+919876543210"
C11_Witness ==
    /\ fmt.called
    /\ fmt.phone = ExamplePhone
    /\ fmt.result = <<"+", "9", "1">> \o ExamplePhone

\* the source addresses of an identity
SourceAddresses(doc) == {doc.emergencyContact.phone, doc.phoneNumber}

\* the trigger has resolved its destinations and started their bursts
Dispatched(r) == r.pc = "bursts" \/ (r.pc = "done" /\ r.status = 200)

\* C12: a source address that is empty or holds no digit is dropped: no
\* burst is started for it (neither as stored nor normalised), and the
\* bursts to the police number and to a well-formed own address are still
\* started and, when the trigger is answered, have issued all their sends.
C12_MalformedAddressDropped ==
    \A t \in Trigs :
        Dispatched(trig[t]) =>
            LET r == trig[t]
                doc == Val(r.doc)
                bad == {a \in SourceAddresses(doc) : DigitsOf(a) = <<>>}
                good == {a \in SourceAddresses(doc) \ {doc.emergencyContact.phone} : DigitsOf(a) # <<>>}
            IN  /\ \A d \in 1..Len(r.dests), a \in bad :
                       r.dests[d] # a /\ (a # <<>> => r.dests[d] # formatPhoneNumber(a))
                /\ \E d \in 1..Len(r.dests) : r.dests[d] = policeNumber
                /\ \A a \in good : \E d \in 1..Len(r.dests) : r.dests[d] = formatPhoneNumber(a)
                /\ r.pc = "done" => \A d \in 1..Len(r.burst) : r.burst[d].sent = BurstSize

\* a trigger by u3, whose emergency contact holds no digit, has been answered
\* after full bursts to the police number and to u3's own address
C12_Witness ==
    \E t \in Trigs :
        /\ trig[t].pc = "done" /\ trig[t].status = 200
        /\ trig[t].user = "u3"
        /\ DigitsOf(Val(trig[t].doc).emergencyContact.phone) = <<>>
        /\ Val(trig[t].doc).emergencyContact.phone # <<>>
        /\ trig[t].dests = <<policeNumber, PhoneU3>>
        /\ \A d \in 1..2 : trig[t].burst[d].sent = BurstSize

\* C13 as stated: without gateway credentials a trigger still stores its
\* record and is answered with success, and no gateway call is issued.
C13_NoCallWithoutCredentials ==
    \A t \in Trigs :
        (~configured /\ Dispatched(trig[t])) =>
            StoredActive(sosLogs, t) /\ Sent(trig[t]) = 0

\* the location supplied with the trigger carries a latitude and a longitude
WellFormed(location) ==
    Truthy(location) /\ {"latitude", "longitude"} \subseteq DOMAIN Val(location)

\* C14 as stated: a location that is supplied but carries no well-formed
\* latitude and longitude is not rejected: the record is stored, and the
\* message carries the 'location unavailable' marker.
C14_MalformedLocationDegrades ==
    \A t \in Trigs :
        (Dispatched(trig[t]) /\ Truthy(trig[t].location) /\ ~WellFormed(trig[t].location)) =>
            StoredActive(sosLogs, t) /\ trig[t].body = GpsUnavailable

\* C15: the message of a trigger that supplied a position holds the map URL
\* built from exactly that latitude and longitude, in this order; the
\* message of a trigger that supplied no location holds the 'unavailable'
\* marker and no coordinates.
C15_MessageCarriesLocation ==
    \A t \in Trigs :
        Dispatched(trig[t]) =>
            /\ WellFormed(trig[t].location) =>
                  trig[t].body = MapUrl \o toString(Val(trig[t].location).latitude)
                                        \o <<",">>
                                        \o toString(Val(trig[t].location).longitude)
            /\ ~Truthy(trig[t].location) =>
                  trig[t].body = GpsUnavailable /\ DigitsOf(trig[t].body) = <<>>

\* a trigger that supplied latitude 12 and longitude 77 is sending a message
\* with the map URL of 12,77
C15_Witness ==
    \E t \in Trigs :
        /\ Dispatched(trig[t])
        /\ trig[t].location = Some([latitude |-> 12, longitude |-> 77])
        /\ trig[t].body = MapUrl \o <<"1", "2", ",", "7", "7">>

\* ------------------------------------------------- claims: alert history

\* number of records of identity u in the store
StoredOf(u) == Len(FindByUser(sosLogs, u))

\* C16: a history read returns at most 10 records, every one of them a stored
\* record of the requesting identity, in non-increasing order of timestamp,
\* and the read changes no stored state.
C16_HistoryBoundedOwnSorted ==
    /\ [](hist.status = 200 =>
            /\ Len(hist.alerts) <= 10
            /\ \A k \in 1..Len(hist.alerts) :
                  /\ hist.alerts[k].userId = hist.tok
                  /\ \E j \in 1..Len(sosLogs) : sosLogs[j] = hist.alerts[k]
            /\ \A k \in 1..(Len(hist.alerts) - 1) :
                  hist.alerts[k].timestamp >= hist.alerts[k + 1].timestamp)
    /\ [][hist' # hist => (sosLogs' = sosLogs /\ users' = users)]_vars

\* u1 has read its history from a store that holds more than 10 of its
\* records, with different timestamps, and a record of u2: 10 are returned
C16_Witness ==
    /\ hist.status = 200 /\ hist.tok = "u1"
    /\ StoredOf("u1") > 10 /\ StoredOf("u2") > 0
    /\ Len(hist.alerts) = 10
    /\ \E j, k \in 1..Len(hist.alerts) : hist.alerts[j].timestamp # hist.alerts[k].timestamp

\* ------------------------------------------------------- claims: login

\* the request carries an identifier that matches nobody, or the identifier
\* of an identity and a secret that is not that identity's
FailsAuthentication(l) ==
    l.identifier \notin Users \/ ~comparePassword(users[l.identifier], l.password)

\* C17 as stated: in every state of the stored identities a request with an
\* existing identifier and a wrong secret gets the answer that a request
\* with an unknown identifier gets (401).
C17_SameFailureInEveryState ==
    \A r \in Logins :
        (logins[r].pc = "done" /\ FailsAuthentication(logins[r])) => logins[r].status = 401

\* C17 amended: a request that fails authentication is answered 401, whether
\* its identifier is unknown or its secret wrong, unless the identity it
\* names is found locked, in which case it is answered 423.
C17_SameFailureUnlessLocked ==
    [][\A r \in Logins :
          (logins'[r].pc = "done" /\ logins[r].pc \in {"find", "inc"}
             /\ FailsAuthentication(logins[r]))
          => LET id == logins[r].identifier
             IN  IF logins[r].pc = "find" /\ id \in Users /\ isLocked(users[id], now)
                 THEN logins'[r].status = 423
                 ELSE logins'[r].status = 401]_vars

\* a request with u1's identifier and a wrong secret has been answered 401
\* while u1 is not locked
C17_Witness ==
    \E r \in Logins :
        /\ logins[r].pc = "done" /\ logins[r].status = 401
        /\ logins[r].identifier = "u1" /\ logins[r].password = "guess"
        /\ ~isLocked(users["u1"], now)

\* ------------------------------------------------- claims: registration

\* C18 as stated: whatever registrations have run, one after the other or
\* overlapping, no two stored identities share an email, a username or a
\* phone number.
C18_UniqueHandleAndPhone ==
    /\ \A i, j \in 1..Len(accounts) :
          i # j => /\ accounts[i].email # accounts[j].email
                   /\ accounts[i].username # accounts[j].username
                   /\ accounts[i].phoneNumber # accounts[j].phoneNumber
    /\ \A i \in 1..Len(accounts), u \in Users :
          /\ accounts[i].email # KeysOf(u).email
          /\ accounts[i].username # KeysOf(u).username
          /\ accounts[i].phoneNumber # KeysOf(u).phoneNumber

\* ------------------------------------------ claims: gate and acknowledgment

\* C19 as stated: within a burst a send after the first is issued only when
\* the 2-second wait behind the previous attempt has elapsed, also when that
\* attempt threw.
C19_GateBetweenAttempts ==
    [][\A t \in Trigs : \A d \in 1..Len(trig[t].burst) :
          (d <= Len(trig'[t].burst) /\ trig'[t].burst[d].sent = trig[t].burst[d].sent + 1)
          => trig[t].burst[d].phase = "gate"]_vars

\* the record of trigger t is stored and the request not answered yet
Persisted(t) == trig[t].pc \in {"dispatch", "bursts"}
Acknowledged(t) == trig[t].pc = "done" /\ trig[t].status = 200
\* no gateway call of trigger t is waiting for its answer
NoCallInFlight(t) ==
    \A d \in 1..Len(trig[t].burst) : trig[t].burst[d].phase # "inflight"

C21_AttemptsInOrder ==
    /\ [](\A t \in Trigs : \A d \in 1..Len(trig[t].burst) :
            /\ trig[t].burst[d].sent <= trig[t].burst[d].i + 1
            /\ trig[t].burst[d].phase = "inflight" =>
                  trig[t].burst[d].sent = trig[t].burst[d].i + 1)
    /\ [][\A t \in Trigs : \A d \in 1..Len(trig[t].burst) :
            (d <= Len(trig'[t].burst) /\ trig'[t].burst[d].sent # trig[t].burst[d].sent)
            => /\ trig'[t].burst[d].sent = trig[t].burst[d].sent + 1
               /\ trig'[t].burst[d].i = trig[t].burst[d].i + 1
               /\ trig[t].burst[d].phase # "inflight" \/ trig'[t].burst[d].phase = "inflight"]_vars

\* the second call of a burst is in flight, the first having returned
C21_Witness ==
    \E t \in Trigs : \E d \in 1..Len(trig[t].burst) :
        /\ trig[t].burst[d].phase = "inflight"
        /\ trig[t].burst[d].i = 1 /\ trig[t].burst[d].sent = 2

\* C22: the bursts of one trigger run side by side: from the dispatch on
\* every destination has had its first call issued, a step of one burst
\* leaves the others as they are, and whatever the other bursts wait for, a
\* burst whose timer is due or whose call is answered can take its step.
C22_BurstsConcurrent ==
    /\ [](\A t \in Trigs : trig[t].pc = "bursts" =>
            \A d \in 1..Len(trig[t].dests) :
                /\ d <= Len(trig[t].burst) /\ trig[t].burst[d].sent >= 1
                /\ trig[t].burst[d].phase = "gate" => ENABLED GateElapsed(t, d)
                /\ trig[t].burst[d].phase = "inflight" => ENABLED SendThrow(t, d)
                /\ (trig[t].burst[d].phase = "inflight" /\ configured) => ENABLED SendOk(t, d))
    /\ [][\A t \in Trigs : \A d, e \in 1..Len(trig[t].burst) :
            (trig[t].pc = "bursts" /\ trig'[t].pc = "bursts" /\ d # e
               /\ trig'[t].burst[d] # trig[t].burst[d])
            => trig'[t].burst[e] = trig[t].burst[e]]_vars

\* the second destination has had all its calls while the first call to the
\* first destination is still unanswered
C22_Witness ==
    \E t \in Trigs :
        /\ trig[t].pc = "bursts" /\ Len(trig[t].burst) = 2
        /\ trig[t].burst[1].phase = "inflight" /\ trig[t].burst[1].i = 0
        /\ trig[t].burst[2].phase = "done" /\ trig[t].burst[2].sent = BurstSize

\* ------------------------------------------------- claims: lockout counting

\* the counter an unlocked identity stands at: a lock-expiry that has passed
\* means the count starts again from 0
CountOf(doc, t) ==
    IF doc.lockUntil # Absent /\ Val(doc.lockUntil) < t THEN 0 ELSE Attempts(doc)

C24_ExpiredLockStartsAfresh ==
    [][\A r \in Logins :
          LET u == logins[r].identifier
          IN  /\ (/\ logins[r].pc = "find" /\ logins'[r].pc # "find"
                  /\ u \in Users /\ users[u].isActive
                  /\ users[u].lockUntil # Absent /\ now >= Val(users[u].lockUntil))
                 => logins'[r].pc = "compare"
              /\ (/\ logins[r].pc = "compare" /\ logins'[r].pc # "compare"
                  /\ logins[r].password = "secret")
                 => logins'[r].status = 200
              /\ (/\ logins[r].pc = "inc" /\ logins'[r].pc = "done"
                  /\ users[u].lockUntil # Absent
                  /\ logins[r].at >= Val(users[u].lockUntil))
                 => /\ users'[u].loginAttempts = Some(1)
                    /\ users'[u].lockUntil = Absent]_vars

\* C25: whatever the interleaving of login requests for one identity, a
\* lock-expiry that is stored and has not passed is neither removed nor
\* replaced, except by the reset that follows a successful authentication.
C25_ActiveLockUntouched ==
    [][\A u \in Users :
          (/\ users[u].lockUntil # Absent /\ now < Val(users[u].lockUntil)
           /\ users'[u].lockUntil # users[u].lockUntil)
          => \E r \in Racers :
                /\ logins[r].identifier = u
                /\ logins[r].pc = "reset" /\ logins'[r].pc = "done"]_vars

\* -------------------------------------------- claims: challenge verification

\* a step of verification request r, through either route
VerificationStep(r) ==
    /\ otps'[r] # otps[r]
    /\ otps'[r].route \in {"verify", "login"}

\* C26: a verification that is refused, for a wrong or an expired code,
\* writes nothing: no step of a request that is not accepted changes any
\* stored identity, and so a request that then brings the stored code before
\* its expiry is accepted.
C26_RefusalChangesNothing ==
    [][\A r \in Racers :
          /\ (VerificationStep(r) /\ otps'[r].accepted # "yes") => users' = users
          /\ (/\ VerificationStep(r) /\ otps[r].pc = "find"
              /\ otps[r].tok \in Users
              /\ users[otps[r].tok].isActive
              /\ otps[r].route = "verify" => ~users[otps[r].tok].isPhoneVerified
              /\ users[otps[r].tok].otpCode = Some(otps[r].code)
              /\ now < Val(users[otps[r].tok].otpExpiry))
             => otps'[r].accepted = "yes"]_vars

\* the first request was refused and the second, with the stored code, is
\* accepted
C26_Witness ==
    /\ otps[1].pc = "done" /\ otps[1].accepted = "no" /\ otps[1].status = 400
    /\ otps[2].pc = "save" /\ otps[2].accepted = "yes"
    /\ users["u1"].otpCode = Some(otps[2].code)

\* C27: a code that was issued once is accepted by at most one verification
\* request, overlapping requests included: as long as no other challenge has
\* been issued to the identity, no two requests are accepted.
C27_AcceptedAtMostOnce ==
    \A q, r \in Racers :
        (/\ q # r
         /\ otps[q].accepted = "yes" /\ otps[r].accepted = "yes"
         /\ otps[q].tok = otps[r].tok /\ otps[q].code = otps[r].code)
        => issued[otps[q].tok].prev # Absent

\* ------------------------------------------------ claims: issuing a challenge

SixZeros == <<"0", "0", "0", "0", "0", "0">>

\* a text of exactly six decimal digits
SixDigits(code) == Len(code) = 6 /\ \A i \in 1..Len(code) : code[i] \in Digit

\* C28 as stated: the code issued is six decimal digits out of the whole
\* range from 000000, which the lowest draw of the generator gives, and the
\* expiry is 10 minutes after the instant of issuing.
C28_WholeRange ==
    \A r \in Otps :
        (otps[r].pc = "find" /\ otps[r].route = "send")
        => LET gen == generateOTP(users[otps[r].tok], 0, now)
           IN  /\ SixDigits(Val(gen.otpCode))
               /\ Val(gen.otpCode) = SixZeros
               /\ gen.otpExpiry = Some(now + 10 * 60 * 1000)

\* C28 amended: the code issued is six decimal digits the first of which is
\* not 0, the lowest draw giving 100000, and the expiry, as drawn and as
\* stored, is 10 minutes after the instant of issuing.
C28_SixDigitsFromHundredThousand ==
    /\ [](\A r \in Otps :
            (otps[r].pc = "find" /\ otps[r].route = "send")
            => generateOTP(users[otps[r].tok], 0, now).otpCode
                 = Some(<<"1", "0", "0", "0", "0", "0">>))
    /\ [][\A r \in Otps :
            /\ (otps[r].pc = "find" /\ otps'[r].pc = "save" /\ otps[r].route = "send")
               => /\ SixDigits(otps'[r].code)
                  /\ otps'[r].code[1] # "0"
                  /\ otps'[r].expiry = now + 10 * 60 * 1000
            /\ (otps[r].pc = "save" /\ otps'[r].pc = "done" /\ otps[r].route = "send")
               => /\ users'[otps[r].tok].otpCode = Some(otps[r].code)
                  /\ users'[otps[r].tok].otpExpiry = Some(otps[r].at + 10 * 60 * 1000)]_vars

\* the lowest code has been drawn and is about to be stored
C28_Witness ==
    \E r \in Otps :
        /\ otps[r].pc = "save" /\ otps[r].route = "send"
        /\ otps[r].code = <<"1", "0", "0", "0", "0", "0">>
        /\ otps[r].expiry = now + 10 * 60 * 1000

\* ------------------------------------------------- claims: deactivation

\* C29: every alert record is stored with status 'active', none is ever
\* removed, and the identity snapshot, the location and the timestamp of a
\* stored record never change, whatever happens to the identity afterwards,
\* its deactivation included.
C29_RecordsKept ==
    /\ [][/\ Len(sosLogs') >= Len(sosLogs)
          /\ \A k \in 1..Len(sosLogs) :
                /\ sosLogs'[k].id = sosLogs[k].id
                /\ sosLogs'[k].userId = sosLogs[k].userId
                /\ sosLogs'[k].userInfo = sosLogs[k].userInfo
                /\ sosLogs'[k].location = sosLogs[k].location
                /\ sosLogs'[k].timestamp = sosLogs[k].timestamp
          /\ \A k \in (Len(sosLogs) + 1)..Len(sosLogs') :
                sosLogs'[k].status = "active"]_vars

\* the identity of a stored record has been deactivated
C29_Witness ==
    /\ Len(sosLogs) >= 1
    /\ \E k \in 1..Len(sosLogs) :
          /\ ~users[sosLogs[k].userId].isActive
          /\ sosLogs[k].userInfo.phoneNumber = users[sosLogs[k].userId].phoneNumber
          /\ sosLogs[k].location # Absent

\* the requests of identity u
TriggersOf(u) == {t \in Trigs : trig[t].tok = u}
LoginsOf(u) == {r \in Logins : logins[r].identifier = u}

\* C30 as stated: from the moment an identity is not active, no record is
\* stored for it, no send is issued for it, no login of it is answered 200
\* and nothing stored about it changes.
C30_NothingOnceInactive ==
    [][\A u \in Users : ~users[u].isActive =>
          /\ users'[u] = users[u]
          /\ \A t \in TriggersOf(u) :
                /\ Sent(trig'[t]) = Sent(trig[t])
                /\ StoredActive(sosLogs', t) => StoredActive(sosLogs, t)
          /\ \A r \in LoginsOf(u) :
                logins'[r].status = 200 => logins[r].status = 200]_vars

\* C30 amended: a request whose identity lookup finds no identity or one
\* that is not active is answered 401 and ends there: it stores no record,
\* issues no send and changes nothing stored.
C30_InactiveFailsAtLookup ==
    /\ [][/\ \A t \in Trigs :
               (/\ trig[t].pc = "auth" /\ trig'[t] # trig[t]
                /\ trig[t].tok \notin Users \/ ~users[trig[t].tok].isActive)
               => /\ trig'[t].pc = "done" /\ trig'[t].status = 401
                  /\ UNCHANGED <<sosLogs, users>>
          /\ \A r \in Logins :
               (/\ logins[r].pc = "find" /\ logins'[r] # logins[r]
                /\ logins[r].identifier \notin Users
                     \/ ~users[logins[r].identifier].isActive)
               => /\ logins'[r].pc = "done" /\ logins'[r].status = 401
                  /\ UNCHANGED <<sosLogs, users>>]_vars
    /\ [](\A t \in Trigs :
            (trig[t].pc = "done" /\ trig[t].status = 401)
            => /\ Sent(trig[t]) = 0 /\ trig[t].rec = Absent
               /\ ~StoredActive(sosLogs, t))

\* u1 has been deactivated and a trigger carrying its token got 401
C30_Witness ==
    /\ ~users["u1"].isActive
    /\ \E t \in Trigs :
          /\ trig[t].tok = "u1" /\ trig[t].pc = "done" /\ trig[t].status = 401
          /\ trig[t].location # Absent
    /\ sosLogs = <<>>

\* ------------------------------------------------ claims: who can cause a send

\* C31: every gateway call of the alert routes is made for a request that
\* passed the token authentication of an active, unlocked identity: a trigger
\* that has issued a call carries an authenticated identity, and no call is
\* issued for a request that carried no token.
C31_SendsOnlyForAuthenticated ==
    /\ \A t \in Trigs : Sent(trig[t]) > 0 =>
          /\ trig[t].user \in Users
          /\ trig[t].doc # Absent /\ Val(trig[t].doc).isActive
    /\ testSms.sent = 0

\* ------------------------------------------- claims: counter and lock together

\* C32: in every state, overlapping failed logins included, an identity whose
\* stored failed-attempt counter is 5 or more has a lock-expiry stored.
C32_FiveFailuresImplyLock ==
    \A u \in Users : Attempts(users[u]) >= 5 => users[u].lockUntil # Absent

\* C33: in every state, a successful login overlapping a failed one included,
\* an identity that has a lock-expiry stored has a stored failed-attempt
\* counter of at least 5.
C33_LockImpliesFiveFailures ==
    \A u \in Users : users[u].lockUntil # Absent => Attempts(users[u]) >= 5

\* ------------------------------------------------ claims: the lock as a gate

\* the lock of identity u is active
LockActive(u) == users[u].lockUntil # Absent /\ now < Val(users[u].lockUntil)

\* C34: no login path hands out a session token for an identity whose lock
\* is active: neither the password login nor the one-time-code login answers
\* 200 while now < lock-expiry.
C34_NoTokenWhileLocked ==
    [][/\ \A r \in Logins :
            (logins'[r].status = 200 /\ logins[r].status # 200)
            => ~LockActive(logins[r].identifier)
       /\ \A r \in Racers :
            (otps'[r].route = "login" /\ otps'[r].status = 200 /\ otps[r].status # 200)
            => ~LockActive(otps[r].tok)]_vars

\* C35: a trigger whose token is that of an identity with an active lock is
\* answered 423 and stores no record and issues no send; once the
\* lock-expiry is reached, that instant included, the same token is accepted.
C35_TriggerLockedOut ==
    /\ [][\A t \in Trigs :
            LET u == trig[t].tok
            IN  (trig[t].pc = "auth" /\ trig'[t] # trig[t] /\ u \in Users
                   /\ users[u].isActive)
                => IF LockActive(u)
                   THEN /\ trig'[t].pc = "done" /\ trig'[t].status = 423
                        /\ sosLogs' = sosLogs
                   ELSE trig'[t].pc = "save" /\ trig'[t].user = u]_vars
    /\ [](\A t \in Trigs :
            (trig[t].pc = "done" /\ trig[t].status = 423)
            => /\ Sent(trig[t]) = 0 /\ trig[t].rec = Absent
               /\ ~StoredActive(sosLogs, t))

\* a trigger with the token of the locked identity has been answered 423
C35_Witness ==
    \E t \in Trigs :
        /\ trig[t].tok = "u1" /\ trig[t].pc = "done" /\ trig[t].status = 423
        /\ LockActive("u1")
        /\ sosLogs = <<>>

\* -------------------------------------------------- claims: termination

\* every burst of trigger t has made its third call and ended
BurstsComplete(t) ==
    /\ Len(trig[t].burst) = Len(trig[t].dests)
    /\ \A d \in 1..Len(trig[t].burst) :
          trig[t].burst[d].phase = "done" /\ trig[t].burst[d].sent = 3
    /\ Sent(trig[t]) = 3 * Len(trig[t].dests)

\* C36: with a store and a gateway that answer every call, every trigger
\* that passed authentication ends with a response, and every trigger whose
\* record was stored ends acknowledged with every burst at its third call:
\* 3 calls for each resolved destination, 9 at most.
C36_TriggerTerminates ==
    /\ \A t \in Trigs : (trig[t].pc = "save") ~> (trig[t].pc = "done")
    /\ \A t \in Trigs : Persisted(t) ~> (Acknowledged(t) /\ BurstsComplete(t))
    /\ [](\A t \in Trigs :
            /\ Sent(trig[t]) <= 3 * Len(trig[t].dests) /\ Sent(trig[t]) <= 9
            /\ Acknowledged(t) => BurstsComplete(t))

\* a trigger has ended acknowledged, three answered calls to each of its
\* two destinations
C36_Witness ==
    \E t \in Trigs :
        /\ Acknowledged(t) /\ BurstsComplete(t)
        /\ Len(trig[t].dests) = 2 /\ Sent(trig[t]) = 6
        /\ \A d \in 1..Len(trig[t].burst) : ~trig[t].burst[d].allThrew

\* ---------------------------------- claims: normalisation as a relation

\* an address in international format: '+' followed by digits only
Canonical(s) ==
    /\ Len(s) >= 2
    /\ Head(s) = "+"
    /\ \A i \in 2..Len(s) : s[i] \in Digit

\* C37: the normalisation returns an address that is already in international
\* format ('+' followed only by digits) as it was given.
C37_CanonicalUnchanged ==
    (fmt.called /\ Canonical(fmt.phone)) => fmt.result = fmt.phone

\* the text is '+' followed by digits only
PlusThenDigits(s) ==
    /\ s # <<>>
    /\ Head(s) = "+"
    /\ \A i \in 2..Len(s) : s[i] \in Digit

\* C38: for every non-empty address the result of the normalisation is a
\* single '+' followed only by digits, and normalising the result again
\* returns the result itself.
C38_Idempotent ==
    (fmt.called /\ fmt.phone # <<>>) =>
        /\ PlusThenDigits(fmt.result)
        /\ formatPhoneNumber(fmt.result) = fmt.result

\* a ten-digit address written with a separator has been normalised to
\* thirteen characters, and normalising them again changes nothing
C38_Witness ==
    /\ fmt.called
    /\ Len(DigitsOf(fmt.phone)) = 10
    /\ Len(fmt.phone) > 10
    /\ Len(fmt.result) = 13
    /\ formatPhoneNumber(fmt.result) = fmt.result

====
